---- MODULE Spec2Model ----
(***************************************************************************)
(* A model of the helper functions and of the cell-order runs of the two   *)
(* hands-on notebooks (CNN HandsOn, Sequence Models HandsOn).              *)
(*                                                                         *)
(* Arrays are records [shape, data]: shape is the numpy shape tuple and    *)
(* data the nested rows (1-indexed sequences; the code's 0-based index i   *)
(* is position i + 1).                                                     *)
(***************************************************************************)
EXTENDS Integers, Sequences, FiniteSets, Bags, TLC

VARIABLES
    img,        \* convolution part: the image handed to pad_img / convolve2D
    kernel,     \* the kernel handed to pad_img / convolve2D
    padded,     \* what a direct call pad_img(img, kernel) returned
    new_img,    \* convolve2D's local new_img, concatenated, before clamping
    res,        \* what convolve2D returned (or the exception it raised)
    cpc,        \* position of the convolution part
    tree,       \* dataset part: the dataset directory, class folder -> number of image files
    files,      \* what os.listdir(path) returned in get_data_from_dir
    X, y, labels_list,                  \* what get_data_from_dir returned
    Xs, ys,                             \* what shuffle(X, y) returned
    val_split,                          \* train_test_split's argument, <<numerator, denominator>>
    X_train, y_train, X_test, y_test,   \* what train_test_split(Xs, ys, val_split) returned
    hot_in, hot,                        \* one_hot's argument and what it returned
    val_files,                          \* what os.listdir returned for the Val directory
    X_val, y_val, y_val_hot,            \* the validation cell's X_val, y_val, y_val_hot
    dpc,        \* position of the dataset part
    nb,         \* notebook run: which notebook, "CNN" or "RNN"
    cell,       \* number of the next code cell to run
    train_model, n_gpus,    \* the knobs as written in the configuration cell
    ns,         \* names bound in the notebook's namespace
    final_model,            \* what final_model is bound to
    ckpt,       \* the checkpoint file (cnn_model.h5 / rnn_model.h5)
    built, fitted,          \* a model was constructed / fit was called
    ckpt_reads, ckpt_writes, evals,     \* load_model, model.save, evaluate/predict calls so far
    log,        \* the helper calls and returns so far, in order
    status,     \* "running", "done", or the exception that stopped the run
    series,     \* time-series part: the scaled data handed to organize_series
    n_in, n_out,            \* organize_series' arguments
    reframed,   \* what organize_series returned
    n_train_hours,          \* the split cell's n_train_hours
    train, test,            \* the split cell's train and test
    X_train_ts, y_train_ts, X_test_ts, y_test_ts,   \* the split cell's X_train, y_train, X_test, y_test
    spc,        \* position of the time-series part
    sequences, dimension,   \* vectorizing part: vectorize_sequences' arguments
    results,    \* what vectorize_sequences returned
    vpc         \* position of the vectorizing part

convVars == <<img, kernel, padded, new_img, res, cpc>>
dataVars == <<tree, files, X, y, labels_list, Xs, ys, val_split,
              X_train, y_train, X_test, y_test, hot_in, hot,
              val_files, X_val, y_val, y_val_hot, dpc>>
runVars == <<nb, cell, train_model, n_gpus, ns, final_model, ckpt, built, fitted,
             ckpt_reads, ckpt_writes, evals, log, status>>
seriesVars == <<series, n_in, n_out, reframed, n_train_hours, train, test,
                X_train_ts, y_train_ts, X_test_ts, y_test_ts, spc>>
vecVars == <<sequences, dimension, results, vpc>>
vars == <<convVars, dataVars, runVars, seriesVars, vecVars>>

(***************************************************************************)
(* Bounds of the model.                                                    *)
(***************************************************************************)
MaxH == 2
MaxW == 2
MaxC == 2
MaxClasses == 2
MaxImages == 4
MaxRows == 5
MaxSeriesRows == 5
MaxVars == 2
MaxIn == 2
MaxOut == 2
MaxTrainHours == 3
MaxSequences == 2
MaxSeqLen == 2
MaxDimension == 2

\* the value of an array variable nothing has been assigned to
None == [shape |-> <<>>, data |-> <<>>]

(***************************************************************************)
(* numpy helpers                                                           *)
(***************************************************************************)
RECURSIVE SumSeq(_)
SumSeq(s) == IF s = <<>> THEN 0 ELSE Head(s) + SumSeq(Tail(s))

\* np.sum over a 2-D array given as nested rows
np_sum(rows) == SumSeq([a \in 1..Len(rows) |-> SumSeq(rows[a])])

Max(a, b) == IF a >= b THEN a ELSE b

\* variant: np.expand_dims(img, axis=0), the new axis first
expand_dims_axis0(im) ==
    [shape |-> <<1, im.shape[1], im.shape[2]>>,
     data  |-> << im.data >>]

\* np.expand_dims(img, axis=2) on a 2-D array
expand_dims(im) ==
    [shape |-> <<im.shape[1], im.shape[2], 1>>,
     data  |-> [r \in 1..im.shape[1] |-> [q \in 1..im.shape[2] |-> <<im.data[r][q]>>]]]

\* np.pad(img, ((ph, ph), (pw, pw)), 'constant') on a 2-D array
np_pad2(im, ph, pw) ==
    LET h == im.shape[1]
        w == im.shape[2]
    IN [shape |-> <<h + 2 * ph, w + 2 * pw>>,
        data  |-> [r \in 1..(h + 2 * ph) |-> [q \in 1..(w + 2 * pw) |->
                     IF r - ph \in 1..h /\ q - pw \in 1..w
                     THEN im.data[r - ph][q - pw] ELSE 0]]]

\* np.pad(img, ((ph, ph), (pw, pw), (0, 0)), 'constant') on a 3-D array
np_pad3(im, ph, pw) ==
    LET h == im.shape[1]
        w == im.shape[2]
        c == im.shape[3]
    IN [shape |-> <<h + 2 * ph, w + 2 * pw, c>>,
        data  |-> [r \in 1..(h + 2 * ph) |-> [q \in 1..(w + 2 * pw) |->
                     IF r - ph \in 1..h /\ q - pw \in 1..w
                     THEN im.data[r - ph][q - pw] ELSE [k \in 1..c |-> 0]]]]

(***************************************************************************)
(* pad_img                                                                 *)
(***************************************************************************)
\* variant: kernel.shape[d] // 2
pad_size_ceil(n) == n \div 2

\* (kernel.shape[d] - 1) // 2
pad_size(n) == (n - 1) \div 2

pad_img(im, ker) ==
    LET pad_height == pad_size(ker.shape[1])
        pad_width  == pad_size(ker.shape[2])
    IN IF Len(im.shape) = 2
       THEN np_pad2(im, pad_height, pad_width)
       ELSE np_pad3(im, pad_height, pad_width)

(***************************************************************************)
(* convolve2D                                                              *)
(***************************************************************************)
\* variant: img[i:i+kernel.shape[0], j:j+kernel.shape[1], 0]
Slice_first_channel(p, ker, i, j, k) ==
    [a \in 1..ker.shape[1] |-> [b \in 1..ker.shape[2] |-> p.data[i + a][j + b][1]]]

\* img[i:i+kernel.shape[0], j:j+kernel.shape[1], k]  (i, j, k 0-based)
Slice(p, ker, i, j, k) ==
    [a \in 1..ker.shape[1] |-> [b \in 1..ker.shape[2] |-> p.data[i + a][j + b][k + 1]]]

\* variant: the kernel rotated by 180 degrees, slice * kernel[::-1, ::-1]
window_product_flipped(sl, ker) ==
    [a \in 1..ker.shape[1] |-> [b \in 1..ker.shape[2] |->
        sl[a][b] * ker.data[ker.shape[1] + 1 - a][ker.shape[2] + 1 - b]]]

\* slice * kernel
window_product(sl, ker) ==
    [a \in 1..ker.shape[1] |-> [b \in 1..ker.shape[2] |-> sl[a][b] * ker.data[a][b]]]

\* variant: range(height - kernel.shape[0]), the last row of windows left out
conv_loops_no_last_row(p, ker) ==
    LET out_h == Max(p.shape[1] - ker.shape[1], 0)
        out_w == p.shape[2] - ker.shape[2] + 1
        c     == p.shape[3]
    IN [shape |-> <<out_h, out_w, c>>,
        data  |-> [i \in 1..out_h |-> [j \in 1..out_w |-> [k \in 1..c |->
                     np_sum(window_product(Slice(p, ker, i - 1, j - 1, k - 1), ker))]]]]

\* the three nested loops: new_img, concatenated, for a padded 3-D image
conv_loops(p, ker) ==
    LET out_h == p.shape[1] - ker.shape[1] + 1
        out_w == p.shape[2] - ker.shape[2] + 1
        c     == p.shape[3]
    IN [shape |-> <<out_h, out_w, c>>,
        data  |-> [i \in 1..out_h |-> [j \in 1..out_w |-> [k \in 1..c |->
                     np_sum(window_product(Slice(p, ker, i - 1, j - 1, k - 1), ker))]]]]

\* np.concatenate raises on an empty list of arrays: no row or no column
conv_raises(p, ker) ==
    \/ p.shape[1] - ker.shape[1] + 1 <= 0
    \/ p.shape[2] - ker.shape[2] + 1 <= 0
    \/ p.shape[3] <= 0

\* variant: no np.maximum before the cast
np_maximum0_missing(a) == a

\* np.maximum(a, 0)
np_maximum0(a) ==
    [shape |-> a.shape,
     data  |-> [i \in 1..a.shape[1] |-> [j \in 1..a.shape[2] |-> [k \in 1..a.shape[3] |->
                  Max(a.data[i][j][k], 0)]]]]

\* variant: np.clip(a, 0, 255).astype('uint8'), saturating at 255
astype_uint8_saturating(a) ==
    [shape |-> a.shape,
     data  |-> [i \in 1..a.shape[1] |-> [j \in 1..a.shape[2] |-> [k \in 1..a.shape[3] |->
                  IF a.data[i][j][k] > 255 THEN 255 ELSE a.data[i][j][k] % 256]]]]

\* .astype('uint8') of an integer array: the low 8 bits
astype_uint8(a) ==
    [shape |-> a.shape,
     data  |-> [i \in 1..a.shape[1] |-> [j \in 1..a.shape[2] |-> [k \in 1..a.shape[3] |->
                  a.data[i][j][k] % 256]]]]

\* res[:, :, 0]
channel0(a) ==
    [shape |-> <<a.shape[1], a.shape[2]>>,
     data  |-> [i \in 1..a.shape[1] |-> [j \in 1..a.shape[2] |-> a.data[i][j][1]]]]

\* the image after the grayscale expansion and the padding
conv_padded(image, ker) ==
    pad_img(IF Len(image.shape) = 2 THEN expand_dims(image) ELSE image, ker)

\* new_img, concatenated, before the clamp
conv_sums(image, ker) == conv_loops(conv_padded(image, ker), ker)

\* convolve2D raises (ValueError from np.concatenate) instead of returning
convolve2D_raises(image, ker) == conv_raises(conv_padded(image, ker), ker)

\* what convolve2D returns when it does not raise
convolve2D(image, ker) ==
    LET is_gray_scale == Len(image.shape) = 2
        r == astype_uint8(np_maximum0(conv_sums(image, ker)))
    IN IF is_gray_scale THEN channel0(r) ELSE r

(***************************************************************************)
(* get_kernels: the fractional kernels (Box Blur, Gaussian Blur) are kept  *)
(* as integer numerators over a common denominator den.                    *)
(***************************************************************************)
Kernel3(rows) == [shape |-> <<3, 3>>, data |-> rows]

get_kernels ==
    << [name |-> "Identity", den |-> 1,
        k |-> Kernel3(<< <<0, 0, 0>>, <<0, 1, 0>>, <<0, 0, 0>> >>)],
       [name |-> "Edge Detection1", den |-> 1,
        k |-> Kernel3(<< <<1, 0, -1>>, <<0, 0, 0>>, <<-1, 0, 1>> >>)],
       [name |-> "Edge Detection2", den |-> 1,
        k |-> Kernel3(<< <<0, 1, 0>>, <<1, -4, 1>>, <<0, 1, 0>> >>)],
       [name |-> "Edge Detection3", den |-> 1,
        k |-> Kernel3(<< <<-1, -1, -1>>, <<-1, 8, -1>>, <<-1, -1, -1>> >>)],
       [name |-> "Sharpen", den |-> 1,
        k |-> Kernel3(<< <<0, -1, 0>>, <<-1, 5, -1>>, <<0, -1, 0>> >>)],
       [name |-> "Box Blur", den |-> 9,
        k |-> Kernel3(<< <<1, 1, 1>>, <<1, 1, 1>>, <<1, 1, 1>> >>)],
       [name |-> "Gaussian Blur", den |-> 16,
        k |-> Kernel3(<< <<1, 2, 1>>, <<2, 4, 2>>, <<1, 2, 1>> >>)] >>

(***************************************************************************)
(* Inputs of the convolution part.                                         *)
(***************************************************************************)
\* 8-bit pixel values used as background and as the one distinguished pixel
Backgrounds == {0, 3}
HotValues == {1, 60, 255}

GrayImage(h, w, bg, hr, hq, hv) ==
    [shape |-> <<h, w>>,
     data  |-> [r \in 1..h |-> [q \in 1..w |-> IF r = hr /\ q = hq THEN hv ELSE bg]]]

ColorImage(h, w, c, bg, hr, hq, hk, hv) ==
    [shape |-> <<h, w, c>>,
     data  |-> [r \in 1..h |-> [q \in 1..w |-> [k \in 1..c |->
                  IF r = hr /\ q = hq /\ k = hk THEN hv ELSE bg + k - 1]]]]

Images ==
    {GrayImage(h, w, bg, hr, hq, hv) :
        h \in 1..MaxH, w \in 1..MaxW, bg \in Backgrounds,
        hr \in 1..MaxH, hq \in 1..MaxW, hv \in HotValues}
    \cup
    {ColorImage(h, w, c, bg, hr, hq, hk, hv) :
        h \in 1..MaxH, w \in 1..MaxW, c \in 1..MaxC, bg \in Backgrounds,
        hr \in 1..MaxH, hq \in 1..MaxW, hk \in 1..MaxC, hv \in HotValues}

\* integer kernels of get_kernels, and kernels of other shapes (even sides,
\* non-square, larger than the image, not symmetric)
IntegerKernels == {get_kernels[n].k : n \in {m \in 1..Len(get_kernels) : get_kernels[m].den = 1}}

OtherKernels ==
    { [shape |-> <<1, 1>>, data |-> << <<2>> >>],
      [shape |-> <<1, 2>>, data |-> << <<1, -2>> >>],
      [shape |-> <<2, 1>>, data |-> << <<3>>, <<-1>> >>],
      [shape |-> <<2, 2>>, data |-> << <<1, 2>>, <<-3, 4>> >>],
      [shape |-> <<2, 3>>, data |-> << <<1, 2, 3>>, <<4, -5, 6>> >>],
      [shape |-> <<3, 3>>, data |-> << <<1, 2, 3>>, <<4, 5, 6>>, <<7, 8, -9>> >>],
      [shape |-> <<4, 3>>, data |-> << <<1, 0, 0>>, <<0, 2, 0>>, <<0, 0, 3>>, <<1, 1, 1>> >>],
      [shape |-> <<5, 5>>, data |-> [a \in 1..5 |-> [b \in 1..5 |-> a - b]]] }

Kernels == IntegerKernels \cup OtherKernels

(***************************************************************************)
(* The convolution part as a state machine: one call of pad_img or of      *)
(* convolve2D on the chosen image and kernel.                              *)
(***************************************************************************)
IdleConv ==
    /\ img = None
    /\ kernel = None
    /\ padded = None
    /\ new_img = None
    /\ res = None
    /\ cpc = "off"

IdleData ==
    /\ tree = <<>>
    /\ files = <<>>
    /\ X = <<>> /\ y = <<>> /\ labels_list = <<>>
    /\ Xs = <<>> /\ ys = <<>>
    /\ val_split = <<0, 1>>
    /\ X_train = <<>> /\ y_train = <<>> /\ X_test = <<>> /\ y_test = <<>>
    /\ hot_in = <<>> /\ hot = <<>>
    /\ val_files = <<>>
    /\ X_val = <<>> /\ y_val = <<>> /\ y_val_hot = <<>>
    /\ dpc = "off"

IdleRun ==
    /\ nb = "none"
    /\ cell = 0
    /\ train_model = FALSE
    /\ n_gpus = 0
    /\ ns = {}
    /\ final_model = "unbound"
    /\ ckpt = "absent"
    /\ built = FALSE /\ fitted = FALSE
    /\ ckpt_reads = 0 /\ ckpt_writes = 0 /\ evals = 0
    /\ log = <<>>
    /\ status = "off"

IdleVec ==
    /\ sequences = <<>>
    /\ dimension = 0
    /\ results = <<>>
    /\ vpc = "off"

IdleSeries ==
    /\ series = <<>>
    /\ n_in = 0 /\ n_out = 0
    /\ reframed = [columns |-> <<>>, index |-> <<>>, values |-> <<>>]
    /\ n_train_hours = 0
    /\ train = <<>> /\ test = <<>>
    /\ X_train_ts = <<>> /\ y_train_ts = <<>> /\ X_test_ts = <<>> /\ y_test_ts = <<>>
    /\ spc = "off"

InitConv ==
    /\ IdleData
    /\ IdleRun
    /\ IdleSeries
    /\ IdleVec
    /\ img \in Images
    /\ kernel \in Kernels
    /\ padded = None
    /\ new_img = None
    /\ res = None
    /\ cpc = "ready"

CallPadImg ==
    /\ cpc = "ready"
    /\ padded' = pad_img(img, kernel)
    /\ cpc' = "padded"
    /\ UNCHANGED <<img, kernel, new_img, res>>
    /\ UNCHANGED <<dataVars, runVars, seriesVars, vecVars>>

CallConvolve2D ==
    /\ cpc = "ready"
    /\ IF convolve2D_raises(img, kernel)
       THEN /\ cpc' = "raised"
            /\ UNCHANGED <<new_img, res>>
       ELSE /\ new_img' = conv_sums(img, kernel)
            /\ res' = convolve2D(img, kernel)
            /\ cpc' = "convolved"
    /\ UNCHANGED <<img, kernel, padded>>
    /\ UNCHANGED <<dataVars, runVars, seriesVars, vecVars>>

NextConv == CallPadImg \/ CallConvolve2D

SpecConv == InitConv /\ [][NextConv]_vars


(***************************************************************************)
(* The dataset helpers: get_data_from_dir, shuffle, train_test_split,      *)
(* one_hot.  An image is known by the folder and the file it was read      *)
(* from, <<folder, n>>; labels are the whole numbers the code holds as     *)
(* floats.                                                                 *)
(***************************************************************************)
RECURSIVE np_hstack(_)
np_hstack(parts) == IF parts = <<>> THEN <<>> ELSE Head(parts) \o np_hstack(Tail(parts))

\* variant: enumerate(files, 1)
class_labels_from_one(n, i) == [m \in 1..n |-> i + 1]

\* np.ones(len(img_names)) * i
class_labels(n, i) == [m \in 1..n |-> i]

\* get_data_from_dir(path): listing is what os.listdir(path) returns, dir the
\* number of image files in each class folder
get_data_from_dir(dir, listing) ==
    LET n == Len(listing)
        labels == [i \in 1..n |-> class_labels(dir[listing[i]], i - 1)]
        imgs   == np_hstack([i \in 1..n |-> [m \in 1..dir[listing[i]] |-> <<listing[i], m>>]])
    IN [imgs |-> imgs, labels |-> np_hstack(labels), labels_list |-> listing]

\* np.hstack raises ValueError on an empty list: no class folder at all
get_data_from_dir_raises(listing) == Len(listing) = 0

\* a[indices] with an index array (0-based indices)
take(a, indices) == [p \in 1..Len(indices) |-> a[indices[p] + 1]]

\* variant: a[indices[::-1]]
take_reversed(a, indices) == [p \in 1..Len(indices) |-> a[indices[Len(indices) + 1 - p] + 1]]

\* y[indices]
take_labels(a, indices) == take(a, indices)

\* shuffle(X, y), indices being np.arange(X.shape[0]) after np.random.shuffle
shuffle(Xa, ya, indices) == <<take(Xa, indices), take_labels(ya, indices)>>

\* the outcomes of np.random.shuffle(np.arange(n)): every arrangement of 0..n-1
Arrangements(n) ==
    {s \in [1..n -> 0..(n - 1)] : \A a, b \in 1..n : a # b => s[a] # s[b]}

\* 1 - val_split in binary64 for the fractions of ValSplits: 1 - 0.8 evaluates
\* to 0.19999999999999996, and n times that falls short of every whole number
\* n / 5 (5 * (1 - 0.8) is 0.9999999999999998); 1 - 0.2 evaluates to 0.8,
\* 1 - 0.5 to 0.5, and their products with n are not short of a whole number
falls_short(vs) == vs = <<4, 5>>

\* int(X.shape[0] * (1 - val_split)) for val_split = vs[1] / vs[2] in 0..1:
\* the binary64 product, truncated
split_index(n, vs) ==
    LET numerator == n * (vs[2] - vs[1])
    IN IF numerator > 0 /\ numerator % vs[2] = 0 /\ falls_short(vs)
       THEN (numerator \div vs[2]) - 1
       ELSE numerator \div vs[2]

Min(a, b) == IF a <= b THEN a ELSE b

\* a[:index] and a[index:] for index >= 0
slice_to(a, index) == SubSeq(a, 1, Min(index, Len(a)))
slice_from(a, index) == SubSeq(a, Min(index, Len(a)) + 1, Len(a))

train_test_split(Xa, ya, vs) ==
    LET index == split_index(Len(Xa), vs)
    IN <<slice_to(Xa, index), slice_to(ya, index), slice_from(Xa, index), slice_from(ya, index)>>

RECURSIVE np_max(_)
np_max(v) == IF Len(v) = 1 THEN v[1] ELSE Max(Head(v), np_max(Tail(v)))

\* variant: np.eye(n, k=1)
np_eye_upper(n) == [r \in 1..n |-> [q \in 1..n |-> IF q = r + 1 THEN 1 ELSE 0]]

\* np.eye(n)
np_eye(n) == [r \in 1..n |-> [q \in 1..n |-> IF q = r THEN 1 ELSE 0]]

\* np.eye(int(np.max(y)) + 1)[y.astype('int')]
one_hot(v) == take(np_eye(np_max(v) + 1), v)

\* np.max raises ValueError on an empty array
one_hot_raises(v) == Len(v) = 0

\* row.argmax(): the 0-based position of the first largest entry
np_argmax(row) ==
    CHOOSE c \in 0..(Len(row) - 1) :
        /\ \A d \in 0..(Len(row) - 1) : row[d + 1] <= row[c + 1]
        /\ \A d \in 0..(c - 1) : row[d + 1] < row[c + 1]

(***************************************************************************)
(* Inputs of the dataset part.                                             *)
(***************************************************************************)
ClassNames == <<"Apple", "Banana", "Cherry", "Dates", "Grape">>

Orders(S) == {s \in [1..Cardinality(S) -> S] : \A a, b \in 1..Cardinality(S) : a # b => s[a] # s[b]}

RECURSIVE TotalOf(_, _)
TotalOf(t, S) == IF S = {} THEN 0
                 ELSE LET c == CHOOSE c \in S : TRUE IN t[c] + TotalOf(t, S \ {c})

Trees ==
    UNION {{t \in [{ClassNames[i] : i \in 1..n} -> 0..MaxImages] :
               TotalOf(t, DOMAIN t) <= MaxImages} : n \in 0..MaxClasses}

\* val_split arguments, <<numerator, denominator>>: 0, 0.2 (the default), 0.5, 0.8, 1
ValSplits == {<<0, 1>>, <<1, 5>>, <<1, 2>>, <<4, 5>>, <<1, 1>>}

\* train_test_split's default val_split=0.2
DefaultValSplit == <<1, 5>>

(***************************************************************************)
(* The dataset part as a state machine: the calls of the training-data     *)
(* cell, one after the other.                                              *)
(***************************************************************************)
InitData ==
    /\ IdleConv
    /\ IdleRun
    /\ IdleSeries
    /\ IdleVec
    /\ tree \in Trees
    /\ files = <<>>
    /\ X = <<>> /\ y = <<>> /\ labels_list = <<>>
    /\ Xs = <<>> /\ ys = <<>>
    /\ val_split = DefaultValSplit
    /\ X_train = <<>> /\ y_train = <<>> /\ X_test = <<>> /\ y_test = <<>>
    /\ hot_in = <<>> /\ hot = <<>>
    /\ val_files = <<>>
    /\ X_val = <<>> /\ y_val = <<>> /\ y_val_hot = <<>>
    /\ dpc = "start"

CallGetDataFromDir ==
    /\ dpc = "start"
    /\ \E listing \in Orders(DOMAIN tree) :
          /\ files' = listing
          /\ IF get_data_from_dir_raises(listing)
             THEN /\ dpc' = "raised"
                  /\ UNCHANGED <<X, y, labels_list>>
             ELSE LET r == get_data_from_dir(tree, listing)
                  IN /\ X' = r.imgs
                     /\ y' = r.labels
                     /\ labels_list' = r.labels_list
                     /\ dpc' = "loaded"
    /\ UNCHANGED <<tree, Xs, ys, val_split, X_train, y_train, X_test, y_test, hot_in, hot>>
    /\ UNCHANGED <<val_files, X_val, y_val, y_val_hot>>
    /\ UNCHANGED <<convVars, runVars, seriesVars, vecVars>>

CallShuffle ==
    /\ dpc = "loaded"
    /\ \E indices \in Arrangements(Len(X)) :
          LET r == shuffle(X, y, indices)
          IN /\ Xs' = r[1]
             /\ ys' = r[2]
    /\ dpc' = "shuffled"
    /\ UNCHANGED <<tree, files, X, y, labels_list, val_split,
                   X_train, y_train, X_test, y_test, hot_in, hot>>
    /\ UNCHANGED <<val_files, X_val, y_val, y_val_hot>>
    /\ UNCHANGED <<convVars, runVars, seriesVars, vecVars>>

CallTrainTestSplit ==
    /\ dpc = "shuffled"
    /\ LET r == train_test_split(Xs, ys, val_split)
       IN /\ X_train' = r[1]
          /\ y_train' = r[2]
          /\ X_test' = r[3]
          /\ y_test' = r[4]
    /\ dpc' = "split"
    /\ UNCHANGED <<tree, files, X, y, labels_list, Xs, ys, val_split, hot_in, hot>>
    /\ UNCHANGED <<val_files, X_val, y_val, y_val_hot>>
    /\ UNCHANGED <<convVars, runVars, seriesVars, vecVars>>

CallOneHot ==
    /\ dpc = "split"
    /\ \E v \in {y_train, y_test} :
          /\ hot_in' = v
          /\ IF one_hot_raises(v)
             THEN /\ dpc' = "raised"
                  /\ UNCHANGED hot
             ELSE /\ hot' = one_hot(v)
                  /\ dpc' = "encoded"
    /\ UNCHANGED <<tree, files, X, y, labels_list, Xs, ys, val_split,
                   X_train, y_train, X_test, y_test>>
    /\ UNCHANGED <<val_files, X_val, y_val, y_val_hot>>
    /\ UNCHANGED <<convVars, runVars, seriesVars, vecVars>>

NextData == CallGetDataFromDir \/ CallShuffle \/ CallTrainTestSplit \/ CallOneHot

SpecData == InitData /\ [][NextData]_vars

(***************************************************************************)
(* The training-data cell followed by the validation-data cell: the Val    *)
(* directory holds the class folders of the Training directory, one image  *)
(* in each, and os.listdir lists it in any order.                          *)
(***************************************************************************)
\* the Val directory next to a Training directory dir
ValDir(dir) == [c \in DOMAIN dir |-> 1]

\* os.listdir(path): the entries in arbitrary order
listdir(dir) == Orders(DOMAIN dir)

\* the validation-data cell: get_data_from_dir, shuffle, one_hot
ValCell ==
    /\ dpc = "encoded"
    /\ ~one_hot_raises(y_train)
    /\ ~one_hot_raises(y_test)
    /\ \E listing \in listdir(ValDir(tree)) :
          /\ val_files' = listing
          /\ IF get_data_from_dir_raises(listing)
             THEN /\ dpc' = "raised"
                  /\ UNCHANGED <<labels_list, X_val, y_val, y_val_hot>>
             ELSE LET r == get_data_from_dir(ValDir(tree), listing)
                  IN \E indices \in Arrangements(Len(r.imgs)) :
                        LET sh == shuffle(r.imgs, r.labels, indices)
                        IN /\ labels_list' = r.labels_list
                           /\ X_val' = sh[1]
                           /\ y_val' = sh[2]
                           /\ IF one_hot_raises(sh[2])
                              THEN /\ dpc' = "raised"
                                   /\ UNCHANGED y_val_hot
                              ELSE /\ y_val_hot' = one_hot(sh[2])
                                   /\ dpc' = "validation loaded"
    /\ UNCHANGED <<tree, files, X, y, Xs, ys, val_split,
                   X_train, y_train, X_test, y_test, hot_in, hot>>
    /\ UNCHANGED <<convVars, runVars, seriesVars, vecVars>>

NextLoads == CallGetDataFromDir \/ CallShuffle \/ CallTrainTestSplit \/ CallOneHot \/ ValCell

SpecLoads == InitData /\ [][NextLoads]_vars

(***************************************************************************)
(* train_test_split and one_hot on their own: any rows, any labels of two  *)
(* classes, any val_split of ValSplits.                                    *)
(***************************************************************************)
InitSplit ==
    /\ IdleConv
    /\ IdleRun
    /\ IdleSeries
    /\ IdleVec
    /\ tree = <<>>
    /\ files = <<>>
    /\ X = <<>> /\ y = <<>> /\ labels_list = <<>>
    /\ \E n \in 0..MaxRows :
          /\ ys \in [1..n -> 0..1]
          /\ Xs = [p \in 1..n |-> <<ClassNames[ys[p] + 1], p>>]
    /\ val_split \in ValSplits
    /\ X_train = <<>> /\ y_train = <<>> /\ X_test = <<>> /\ y_test = <<>>
    /\ hot_in = <<>> /\ hot = <<>>
    /\ val_files = <<>>
    /\ X_val = <<>> /\ y_val = <<>> /\ y_val_hot = <<>>
    /\ dpc = "shuffled"

NextSplit == CallTrainTestSplit \/ CallOneHot

SpecSplit == InitSplit /\ [][NextSplit]_vars


(***************************************************************************)
(* Cell-order runs of the two notebooks' classification parts.  A cell is  *)
(* a sequence of statements; a statement has the guard it stands under     *)
(* ("always", "train": if train_model is True, "notrain": if train_model   *)
(* is not True / else), the names it reads, the names it binds, the helper *)
(* calls it makes, and what it does with the model and the checkpoint.     *)
(***************************************************************************)
Stmt(g, u, d, c, e) == [guard |-> g, uses |-> u, defs |-> d, calls |-> c, eff |-> e]

\* one call of helper f that calls no other helper
Call(f) == << <<"call", f>>, <<"ret", f>> >>

\* img_ = convolve2D(img, kernel[1]): convolve2D calls pad_img
convolve2D_call ==
    << <<"call", "convolve2D">>, <<"call", "pad_img">>,
       <<"ret", "pad_img">>, <<"ret", "convolve2D">> >>

\* variant: convolve2D called once, outside the loop
kernel_loop_once(kernels) == convolve2D_call

\* for i, kernel in enumerate(kernels): ... convolve2D(img, kernel[1]) ...
kernel_loop(kernels) == np_hstack([n \in 1..Len(kernels) |-> convolve2D_call])

\* plot_with_kernels(img)
plot_with_kernels_calls ==
    << <<"call", "plot_with_kernels">> >> \o Call("get_kernels") \o kernel_loop(get_kernels)
       \o << <<"ret", "plot_with_kernels">> >>

CnnCells ==
    << \* !conda install
       << Stmt("always", {}, {}, <<>>, {}) >>,
       \* imports
       << Stmt("always", {},
               {"os", "keras", "Model", "Input", "Dense", "Dropout", "Flatten", "Conv2D",
                "MaxPooling2D", "ModelCheckpoint", "multi_gpu_model", "classification_report",
                "np", "plt", "sns", "Image"}, <<>>, {}) >>,
       \* seed and knobs
       << Stmt("always", {"np"}, {"n_gpus", "train_model"}, <<>>, {}) >>,
       \* utility functions
       << Stmt("always", {},
               {"convolve2D", "pad_img", "get_kernels", "plot_with_kernels", "imshow",
                "get_data_from_dir", "train_test_split", "shuffle", "one_hot", "plot_some"},
               <<>>, {}) >>,
       \* sample image
       << Stmt("always", {"np", "Image", "imshow", "plt"}, {"img"}, Call("imshow"), {}) >>,
       \* plot_with_kernels(img)
       << Stmt("always",
               {"plot_with_kernels", "img", "get_kernels", "convolve2D", "pad_img",
                "np", "plt", "sns"}, {}, plot_with_kernels_calls, {}) >>,
       \* training data
       << Stmt("train",
               {"get_data_from_dir", "os", "np", "Image", "shuffle", "train_test_split", "one_hot"},
               {"X", "y", "labels_list", "X_train", "y_train", "X_test", "y_test",
                "y_train_hot", "y_test_hot"},
               Call("get_data_from_dir") \o Call("shuffle") \o Call("train_test_split")
                  \o Call("one_hot") \o Call("one_hot"), {}) >>,
       \* validation data
       << Stmt("always",
               {"get_data_from_dir", "os", "np", "Image", "shuffle", "one_hot"},
               {"X_val", "y_val", "labels_list", "y_val_hot"},
               Call("get_data_from_dir") \o Call("shuffle") \o Call("one_hot"), {}) >>,
       \* plot_some
       << Stmt("train", {"plot_some", "X_train", "y_train", "labels_list", "np", "plt"}, {},
               Call("plot_some"), {}),
          Stmt("notrain", {"plot_some", "X_val", "y_val", "labels_list", "np", "plt"}, {},
               Call("plot_some"), {}) >>,
       \* hyperparameters and the CNN
       << Stmt("always", {}, {"input_shape", "n_classes", "batch_size", "epochs"}, <<>>, {}),
          Stmt("train",
               {"Input", "input_shape", "Conv2D", "MaxPooling2D", "Flatten", "Dense",
                "n_classes", "Model", "n_gpus", "multi_gpu_model"},
               {"input", "model", "preds", "final_model"}, <<>>, {"build"}) >>,
       \* fit
       << Stmt("train",
               {"final_model", "X_train", "y_train_hot", "batch_size", "epochs",
                "X_test", "y_test_hot"}, {"history"}, <<>>, {"fit"}) >>,
       \* model.save('cnn_model.h5')
       << Stmt("train", {"model"}, {}, <<>>, {"save"}) >>,
       \* history for accuracy
       << Stmt("train", {"plt", "history"}, {}, <<>>, {}) >>,
       \* history for loss
       << Stmt("train", {"plt", "history"}, {}, <<>>, {}) >>,
       \* load_model and evaluate
       << Stmt("notrain", {}, {"load_model", "final_model"}, <<>>, {"load"}),
          Stmt("always", {"final_model", "X_val", "y_val_hot"}, {"results"}, <<>>, {"evaluate"}) >>,
       \* predict and classification_report
       << Stmt("always", {"final_model", "X_val", "classification_report", "y_val_hot"},
               {"predictions", "report"}, <<>>, {"predict"}) >> >>

RnnCells ==
    << \* !conda install
       << Stmt("always", {}, {}, <<>>, {}) >>,
       \* imports
       << Stmt("always", {},
               {"os", "np", "pd", "plt", "Image", "itemgetter", "models", "regularizers",
                "layers", "optimizers", "losses", "metrics", "Sequential", "Dense", "np_utils",
                "to_categorical", "imdb", "multi_gpu_model", "confusion_matrix",
                "classification_report"}, <<>>, {}) >>,
       \* seed and knobs
       << Stmt("always", {"np"}, {"n_gpus", "train_model"}, <<>>, {}) >>,
       \* imdb.load_data
       << Stmt("always", {"imdb"},
               {"train_data", "train_labels", "test_data", "test_labels"}, <<>>, {}) >>,
       \* dataset info
       << Stmt("always", {"train_data", "train_labels", "test_data", "test_labels", "imdb"},
               {"word_index", "reverse_word_index", "decoded_review"}, <<>>, {}) >>,
       \* vectorize_sequences
       << Stmt("always", {}, {"vectorize_sequences"}, <<>>, {}),
          Stmt("always",
               {"vectorize_sequences", "np", "train_data", "test_data", "train_labels",
                "test_labels"},
               {"X_train", "X_test", "y_train", "y_test"},
               Call("vectorize_sequences") \o Call("vectorize_sequences"), {}) >>,
       \* validation set
       << Stmt("always", {"X_train", "y_train"}, {"X_val", "X_train", "y_val", "y_train"},
               <<>>, {}) >>,
       \* the model
       << Stmt("train", {"models", "layers", "regularizers", "n_gpus", "multi_gpu_model"},
               {"model", "final_model"}, <<>>, {"build"}) >>,
       \* fit
       << Stmt("train", {"final_model", "X_train", "y_train", "X_val", "y_val"},
               {"n_epochs", "batch_size", "history"}, <<>>, {"fit"}) >>,
       \* model.save('rnn_model.h5')
       << Stmt("train", {"model"}, {}, <<>>, {"save"}) >>,
       \* history for accuracy
       << Stmt("train", {"plt", "history"}, {}, <<>>, {}) >>,
       \* history for loss
       << Stmt("train", {"plt", "history"}, {}, <<>>, {}) >>,
       \* evaluate
       << Stmt("train", {"final_model", "X_test", "y_test", "history"},
               {"results", "history_dict"}, <<>>, {"evaluate"}) >>,
       \* load_model, predict, confusion matrix
       << Stmt("notrain", {}, {"load_model", "final_model"}, <<>>, {"load"}),
          Stmt("always", {"final_model", "X_test", "y_test", "confusion_matrix", "plt", "np"},
               {"predictions", "cm", "classNames", "tick_marks", "s", "i", "j"},
               <<>>, {"predict"}) >>,
       \* classification_report
       << Stmt("always", {"classification_report", "predictions", "y_test"}, {}, <<>>, {}) >> >>

CellsOf(n) == IF n = "CNN" THEN CnnCells ELSE RnnCells

\* variant: the load_model block not under its if
guard_holds_unguarded_load(g, tm) ==
    IF g = "train" THEN tm = TRUE ELSE TRUE

\* "train": train_model is True; "notrain": train_model is not True (or the else branch)
guard_holds(g, tm) ==
    IF g = "always" THEN TRUE
    ELSE IF g = "train" THEN tm = TRUE
    ELSE tm # TRUE

\* variant: multi_gpu_model(model, gpus=n_gpus)
built_final_model_n_replicas(gp) ==
    IF gp > 1 THEN "multi_gpu_model(model, gpus=n_gpus)" ELSE "model"

\* if n_gpus > 1: final_model = multi_gpu_model(model, gpus=8) else: final_model = model
built_final_model(gp) == IF gp > 1 THEN "multi_gpu_model(model, gpus=8)" ELSE "model"

\* one statement, run in state st (a record of the run's variables)
exec_stmt(sm, st, tm, gp) ==
    IF sm.guard # "always" /\ "train_model" \notin st.ns
    THEN [st EXCEPT !.status = "NameError"]
    ELSE IF ~guard_holds(sm.guard, tm) THEN st
    ELSE IF ~(sm.uses \subseteq st.ns) THEN [st EXCEPT !.status = "NameError"]
    ELSE IF "load" \in sm.eff /\ st.ckpt = "absent" THEN [st EXCEPT !.status = "OSError"]
    ELSE [st EXCEPT
            !.ns = @ \cup sm.defs,
            !.log = @ \o sm.calls,
            !.built = @ \/ "build" \in sm.eff,
            !.fitted = @ \/ "fit" \in sm.eff,
            !.final_model = IF "build" \in sm.eff THEN built_final_model(gp)
                            ELSE IF "load" \in sm.eff THEN "load_model(checkpoint)"
                            ELSE @,
            !.ckpt = IF "save" \in sm.eff THEN "model" ELSE @,
            !.ckpt_writes = IF "save" \in sm.eff THEN @ + 1 ELSE @,
            !.ckpt_reads = IF "load" \in sm.eff THEN @ + 1 ELSE @,
            !.evals = IF sm.eff \cap {"evaluate", "predict"} # {} THEN @ + 1 ELSE @]

\* the statements of a cell in order, up to the first exception
RECURSIVE exec_stmts(_, _, _, _)
exec_stmts(stmts, st, tm, gp) ==
    IF stmts = <<>> \/ st.status # "running" THEN st
    ELSE exec_stmts(Tail(stmts), exec_stmt(Head(stmts), st, tm, gp), tm, gp)

InitRun ==
    /\ IdleConv
    /\ IdleData
    /\ IdleSeries
    /\ IdleVec
    /\ nb \in {"CNN", "RNN"}
    /\ cell = 1
    /\ train_model \in BOOLEAN
    /\ n_gpus \in {0, 1, 2, 4, 8}
    /\ ns = {}
    /\ final_model = "unbound"
    /\ ckpt \in {"absent", "present"}
    /\ built = FALSE /\ fitted = FALSE
    /\ ckpt_reads = 0 /\ ckpt_writes = 0 /\ evals = 0
    /\ log = <<>>
    /\ status = "running"

\* the operator runs the next cell
RunCell ==
    /\ status = "running"
    /\ cell <= Len(CellsOf(nb))
    /\ LET st == exec_stmts(CellsOf(nb)[cell],
                            [ns |-> ns, log |-> log, built |-> built, fitted |-> fitted,
                             final_model |-> final_model, ckpt |-> ckpt,
                             ckpt_writes |-> ckpt_writes, ckpt_reads |-> ckpt_reads,
                             evals |-> evals, status |-> "running"],
                            train_model, n_gpus)
       IN /\ ns' = st.ns
          /\ log' = st.log
          /\ built' = st.built
          /\ fitted' = st.fitted
          /\ final_model' = st.final_model
          /\ ckpt' = st.ckpt
          /\ ckpt_writes' = st.ckpt_writes
          /\ ckpt_reads' = st.ckpt_reads
          /\ evals' = st.evals
          /\ status' = IF st.status # "running" THEN st.status
                       ELSE IF cell = Len(CellsOf(nb)) THEN "done" ELSE "running"
    /\ cell' = cell + 1
    /\ UNCHANGED <<nb, train_model, n_gpus>>
    /\ UNCHANGED <<convVars, dataVars, seriesVars, vecVars>>

NextRun == RunCell

SpecRun == InitRun /\ [][NextRun]_vars


(***************************************************************************)
(* The time-series part: organize_series and the split cell.  The value of *)
(* variable j (1-based) at time t (0-based row of the data) is written     *)
(* <<t, j>>; NaN is the value of a shifted-in cell.                        *)
(***************************************************************************)
NaN == <<-1, 0>>

\* variant: df.shift(-i)
shift_opposite(data, n_vars, i) ==
    [t \in 1..Len(data) |->
        IF t + i \in 1..Len(data) THEN data[t + i] ELSE [j \in 1..n_vars |-> NaN]]

\* df.shift(i), as the rows of its values: row t holds row t - i of the data
shift(data, n_vars, i) ==
    [t \in 1..Len(data) |->
        IF t - i \in 1..Len(data) THEN data[t - i] ELSE [j \in 1..n_vars |-> NaN]]

\* the column names of one shifted copy: var<j>(t-<i>), var<j>(t), var<j>(t+<i>),
\* kept as the pair <<j, offset>>
names_at(n_vars, offset) == [j \in 1..n_vars |-> <<j, offset>>]

\* pd.concat(cols, axis=1), as the rows of its values
concat_columns(cols, n) == [t \in 1..n |-> np_hstack([c \in 1..Len(cols) |-> cols[c][t]])]

\* the rows agg.dropna keeps
RECURSIVE rows_without_nan(_, _)
rows_without_nan(rows, t) ==
    IF t > Len(rows) THEN <<>>
    ELSE (IF \E c \in 1..Len(rows[t]) : rows[t][c] = NaN THEN <<>> ELSE <<t - 1>>)
         \o rows_without_nan(rows, t + 1)

\* organize_series(data, n_in, n_out, dropnan=True) for a 2-D array data
organize_series(data, n_vars, nin, nout) ==
    LET lagged == [c \in 1..nin |-> shift(data, n_vars, nin + 1 - c)]
        ahead  == [c \in 1..nout |-> shift(data, n_vars, -(c - 1))]
        names  == np_hstack([c \in 1..nin |-> names_at(n_vars, -(nin + 1 - c))])
                  \o np_hstack([c \in 1..nout |-> names_at(n_vars, c - 1)])
        agg    == concat_columns(lagged \o ahead, Len(data))
        kept   == rows_without_nan(agg, 1)
    IN [columns |-> names,
        index   |-> kept,
        values  |-> [r \in 1..Len(kept) |-> agg[kept[r] + 1]]]

\* pd.concat raises ValueError when cols is empty
organize_series_raises(nin, nout) == nin + nout = 0

\* values[n_train_hours:, :]
rows_from(values, n) == slice_from(values, n)

\* values[:n_train_hours, :]
rows_to(values, n) == slice_to(values, n)

\* a[:, :-1]
all_but_last(rows) == [r \in 1..Len(rows) |-> SubSeq(rows[r], 1, Len(rows[r]) - 1)]

\* a[:, -1]
last_column(rows) == [r \in 1..Len(rows) |-> rows[r][Len(rows[r])]]

\* X.reshape((X.shape[0], 1, X.shape[1]))
reshape_steps(rows) == [r \in 1..Len(rows) |-> << rows[r] >>]

\* the series: n rows of v variables.  The cell's n_train_hours (365 * 24, the
\* hours of one year) is drawn from 0..MaxTrainHours, so that series shorter
\* and longer than it occur among the few rows of the model.
SeriesData(n, v) == [t \in 1..n |-> [j \in 1..v |-> <<t - 1, j>>]]

InitSeries ==
    /\ IdleConv
    /\ IdleData
    /\ IdleRun
    /\ IdleVec
    /\ \E n \in 0..MaxSeriesRows, v \in 1..MaxVars : series = [n_vars |-> v, data |-> SeriesData(n, v)]
    /\ n_in \in 0..MaxIn
    /\ n_out \in 0..MaxOut
    /\ reframed = [columns |-> <<>>, index |-> <<>>, values |-> <<>>]
    /\ n_train_hours \in 0..MaxTrainHours
    /\ train = <<>> /\ test = <<>>
    /\ X_train_ts = <<>> /\ y_train_ts = <<>> /\ X_test_ts = <<>> /\ y_test_ts = <<>>
    /\ spc = "start"

CallOrganizeSeries ==
    /\ spc = "start"
    /\ IF organize_series_raises(n_in, n_out)
       THEN /\ spc' = "raised"
            /\ UNCHANGED reframed
       ELSE /\ reframed' = organize_series(series.data, series.n_vars, n_in, n_out)
            /\ spc' = "reframed"
    /\ UNCHANGED <<series, n_in, n_out, n_train_hours, train, test>>
    /\ UNCHANGED <<X_train_ts, y_train_ts, X_test_ts, y_test_ts>>
    /\ UNCHANGED <<convVars, dataVars, runVars, vecVars>>

\* the cell "split data into training and testing"
SplitCell ==
    /\ spc = "reframed"
    /\ test' = rows_to(reframed.values, n_train_hours)
    /\ train' = rows_from(reframed.values, n_train_hours)
    /\ X_train_ts' = reshape_steps(all_but_last(train'))
    /\ y_train_ts' = last_column(train')
    /\ X_test_ts' = reshape_steps(all_but_last(test'))
    /\ y_test_ts' = last_column(test')
    /\ spc' = "split"
    /\ UNCHANGED <<series, n_in, n_out, reframed, n_train_hours>>
    /\ UNCHANGED <<convVars, dataVars, runVars, vecVars>>

NextSeries == CallOrganizeSeries \/ SplitCell

SpecSeries == InitSeries /\ [][NextSeries]_vars

(***************************************************************************)
(* vectorize_sequences: sequences is a list of lists of word indices.      *)
(***************************************************************************)
\* np.zeros((n, d))
np_zeros(n, d) == [i \in 1..n |-> [j \in 1..d |-> 0]]

\* variant: np.add.at(results, (i, sequence), 1.), one more for every occurrence
RECURSIVE add_at(_, _, _)
add_at(row, indices, value) ==
    IF indices = <<>> THEN row
    ELSE add_at([row EXCEPT ![Head(indices) + 1] = @ + value], Tail(indices), value)

\* row[indices] = value with a list of indices (0-based), one after the other
RECURSIVE assign_at(_, _, _)
assign_at(row, indices, value) ==
    IF indices = <<>> THEN row
    ELSE assign_at([row EXCEPT ![Head(indices) + 1] = value], Tail(indices), value)

\* vectorize_sequences(sequences, dimension)
vectorize_sequences(seqs, dim) ==
    LET zeros == np_zeros(Len(seqs), dim)
    IN [i \in 1..Len(seqs) |-> assign_at(zeros[i], seqs[i], 1)]

\* lists of at most n elements of S
ListsUpTo(S, n) == UNION {[1..m -> S] : m \in 0..n}

InitVec ==
    /\ IdleConv
    /\ IdleData
    /\ IdleRun
    /\ IdleSeries
    /\ dimension \in 1..MaxDimension
    /\ sequences \in ListsUpTo(ListsUpTo(0..(dimension - 1), MaxSeqLen), MaxSequences)
    /\ results = <<>>
    /\ vpc = "start"

CallVectorizeSequences ==
    /\ vpc = "start"
    /\ results' = vectorize_sequences(sequences, dimension)
    /\ vpc' = "vectorized"
    /\ UNCHANGED <<sequences, dimension>>
    /\ UNCHANGED <<convVars, dataVars, runVars, seriesVars>>

NextVec == CallVectorizeSequences

SpecVec == InitVec /\ [][NextVec]_vars

(***************************************************************************)
(* Claims about the convolution part (SpecConv).                           *)
(***************************************************************************)
\* element (i, j, k), 0-based, of a 3-D array
At3(a, i, j, k) == a.data[i + 1][j + 1][k + 1]

\* element (i, j, k) of what convolve2D returned: 2-D for a grayscale input
ResAt(i, j, k) == IF Len(res.shape) = 2 THEN res.data[i + 1][j + 1] ELSE At3(res, i, j, k)

\* the 3-D one-channel image holding channel k (0-based) of a 2-D or 3-D image
OnlyChannel(image, k) ==
    [shape |-> <<image.shape[1], image.shape[2], 1>>,
     data  |-> [r \in 1..image.shape[1] |-> [q \in 1..image.shape[2] |->
                  IF Len(image.shape) = 2 THEN <<image.data[r][q]>>
                  ELSE <<image.data[r][q][k + 1]>>]]]

\* sum over all kernel positions (a, b), enumerated row by row, of
\* kernel[a, b] * p[i + a, j + b, k]
TapSum(p, ker, i, j, k) ==
    LET kw == ker.shape[2]
    IN SumSeq([n \in 1..(ker.shape[1] * kw) |->
                 ker.data[((n - 1) \div kw) + 1][((n - 1) % kw) + 1]
                 * At3(p, i + ((n - 1) \div kw), j + ((n - 1) % kw), k)])

\* C1: in convolve2D the value at every output position (i, j) and channel k
\* before clamping is the sum over (a, b) of kernel[a, b] * padded[i+a, j+b, k]
\* with padded = pad_img(img, kernel): the kernel is applied unflipped, and
\* output channel k is what the convolution of input channel k alone gives.
C1_WindowProductSum ==
    cpc = "convolved" =>
        LET p == pad_img(IF Len(img.shape) = 2 THEN expand_dims(img) ELSE img, kernel)
        IN /\ new_img.shape = <<p.shape[1] - kernel.shape[1] + 1,
                                p.shape[2] - kernel.shape[2] + 1, p.shape[3]>>
           /\ \A i \in 0..(new_img.shape[1] - 1), j \in 0..(new_img.shape[2] - 1),
                 k \in 0..(new_img.shape[3] - 1) :
                 /\ At3(new_img, i, j, k) = TapSum(p, kernel, i, j, k)
                 /\ At3(new_img, i, j, k) = At3(conv_sums(OnlyChannel(img, k), kernel), i, j, 0)

\* a two-channel image under the 2 x 3 kernel, whose two channels give different sums
C1_Witness ==
    /\ cpc = "convolved"
    /\ kernel.shape = <<2, 3>>
    /\ Len(img.shape) = 3
    /\ new_img.shape[3] = 2
    /\ At3(new_img, 0, 0, 0) # At3(new_img, 0, 0, 1)
    /\ At3(new_img, 0, 0, 0) # 0

\* rows of zeros added above (and below) by a call pad_img(img, kernel)
RowsAdded == (padded.shape[1] - img.shape[1]) \div 2
ColsAdded == (padded.shape[2] - img.shape[2]) \div 2

\* the padded array is the image at offset (RowsAdded, ColsAdded) inside a frame
\* of zeros, the frame equal on opposite sides, the channel axis as it was
PaddedIsFramedImage ==
    /\ Len(padded.shape) = Len(img.shape)
    /\ padded.shape[1] = img.shape[1] + 2 * RowsAdded
    /\ padded.shape[2] = img.shape[2] + 2 * ColsAdded
    /\ Len(img.shape) = 3 => padded.shape[3] = img.shape[3]
    /\ \A r \in 1..padded.shape[1], q \in 1..padded.shape[2] :
          IF r - RowsAdded \in 1..img.shape[1] /\ q - ColsAdded \in 1..img.shape[2]
          THEN padded.data[r][q] = img.data[r - RowsAdded][q - ColsAdded]
          ELSE IF Len(img.shape) = 2
               THEN padded.data[r][q] = 0
               ELSE /\ Len(padded.data[r][q]) = img.shape[3]
                    /\ \A k \in 1..img.shape[3] : padded.data[r][q][k] = 0

\* C2 as stated: exactly (kernel_size - 1) / 2 zero rows above and below and
\* zero columns left and right, for every kernel height and width, odd or even.
C2_ExactHalfPadding ==
    cpc = "padded" =>
        /\ 2 * RowsAdded = kernel.shape[1] - 1
        /\ 2 * ColsAdded = kernel.shape[2] - 1
        /\ PaddedIsFramedImage

\* the floor of (n - 1) / 2, written out by parity
HalfFloor(n) == IF n % 2 = 1 THEN CHOOSE m \in 0..n : 2 * m = n - 1
                ELSE CHOOSE m \in 0..n : 2 * m = n - 2

\* C2 (amended): pad_img adds floor((kernel_size - 1) / 2) zero rows above and
\* below and zero columns left and right: (kernel_size - 1) / 2 for an odd
\* size, kernel_size / 2 - 1 for an even one; the original pixels are unchanged
\* at offset (pad_height, pad_width) and the channel axis is not padded.
C2_FloorHalfPadding ==
    cpc = "padded" =>
        /\ RowsAdded = HalfFloor(kernel.shape[1])
        /\ ColsAdded = HalfFloor(kernel.shape[2])
        /\ PaddedIsFramedImage

\* a 3-D image padded for the 4 x 3 kernel: one row above and below, one column each side
C2_Witness ==
    /\ cpc = "padded"
    /\ kernel.shape = <<4, 3>>
    /\ Len(img.shape) = 3
    /\ img.shape[3] = 2
    /\ RowsAdded = 1
    /\ ColsAdded = 1
    /\ \E r \in 1..img.shape[1], q \in 1..img.shape[2] : img.data[r][q][1] = 255

\* C3: for an integer kernel and an 8-bit image every element convolve2D
\* returns lies in 0..255, is 0 where the window product-sum S is negative and
\* equals S where 0 <= S <= 255.
C3_ClampAndCast ==
    cpc = "convolved" =>
        /\ res.shape = IF Len(img.shape) = 2 THEN <<new_img.shape[1], new_img.shape[2]>>
                       ELSE new_img.shape
        /\ \A i \in 0..(new_img.shape[1] - 1), j \in 0..(new_img.shape[2] - 1),
                 k \in 0..(new_img.shape[3] - 1) :
                 LET S == At3(new_img, i, j, k)
                     v == ResAt(i, j, k)
                 IN /\ v \in 0..255
                    /\ S < 0 => v = 0
                    /\ S \in 0..255 => v = S

\* one result with a negative sum, a sum inside 1..255 and a sum above 255
C3_Witness ==
    /\ cpc = "convolved"
    /\ \E i \in 0..(new_img.shape[1] - 1), j \in 0..(new_img.shape[2] - 1),
          k \in 0..(new_img.shape[3] - 1) :
              At3(new_img, i, j, k) < 0 /\ ResAt(i, j, k) = 0
    /\ \E i \in 0..(new_img.shape[1] - 1), j \in 0..(new_img.shape[2] - 1),
          k \in 0..(new_img.shape[3] - 1) :
              At3(new_img, i, j, k) \in 1..255 /\ ResAt(i, j, k) = At3(new_img, i, j, k)
    /\ \E i \in 0..(new_img.shape[1] - 1), j \in 0..(new_img.shape[2] - 1),
          k \in 0..(new_img.shape[3] - 1) :
              At3(new_img, i, j, k) > 255

\* the kernel get_kernels() lists under a name
KernelNamed(nm) ==
    get_kernels[CHOOSE n \in 1..Len(get_kernels) : get_kernels[n].name = nm].k

\* C11: convolve2D with the 'Identity' kernel of get_kernels() returns the
\* input: same shape, grayscale or multi-channel, and every element equal to
\* the input's, border pixels included.
C11_IdentityKernelIsIdentity ==
    kernel = KernelNamed("Identity") =>
        /\ cpc # "raised"
        /\ cpc = "convolved" =>
              /\ res.shape = img.shape
              /\ \A r \in 1..img.shape[1], q \in 1..img.shape[2] :
                    res.data[r][q] = img.data[r][q]
              /\ res = img

\* a 2 x 2 image of two differing channels, every pixel on the border, one of
\* them 255, returned as it was
C11_Witness ==
    /\ cpc = "convolved"
    /\ kernel = KernelNamed("Identity")
    /\ img.shape = <<2, 2, 2>>
    /\ img.data[2][2][2] = 255
    /\ img.data[1][1][1] # img.data[1][1][2]
    /\ res.data[2][2] = <<img.data[2][2][1], 255>>
    /\ res.data[1][1] = img.data[1][1]

\* the output size along an axis of n input elements under a kernel side k
OutSize(n, k) == IF k % 2 = 1 THEN n ELSE n - 1

\* C12: convolve2D returns the input's channel count, height H for an odd
\* kernel height and H - 1 for an even one, width W for an odd kernel width
\* and W - 1 for an even one, for kernels larger than the image too; it
\* raises exactly when an even kernel side leaves 0 rows or 0 columns.
C12_OutputShape ==
    cpc \in {"convolved", "raised"} =>
        LET out_h == OutSize(img.shape[1], kernel.shape[1])
            out_w == OutSize(img.shape[2], kernel.shape[2])
        IN /\ (cpc = "raised") = (out_h = 0 \/ out_w = 0)
           /\ cpc = "convolved" =>
                 /\ res.shape = IF Len(img.shape) = 2 THEN <<out_h, out_w>>
                                ELSE <<out_h, out_w, img.shape[3]>>
                 /\ Len(res.data) = out_h
                 /\ \A r \in 1..Len(res.data) :
                       /\ Len(res.data[r]) = out_w
                       /\ Len(img.shape) = 3 =>
                             \A q \in 1..Len(res.data[r]) :
                                Len(res.data[r][q]) = img.shape[3]

\* the 4 x 3 kernel, taller than the 2 x 2 two-channel image: one row of two
\* pixels of two channels comes back
C12_Witness ==
    /\ cpc = "convolved"
    /\ kernel.shape = <<4, 3>>
    /\ img.shape = <<2, 2, 2>>
    /\ res.shape = <<1, 2, 2>>
    /\ Len(res.data) = 1
    /\ Len(res.data[1]) = 2

\* C13: convolve2D does not saturate: for an integer kernel and an 8-bit
\* image the element returned for a window product-sum S is max(S, 0) mod 256,
\* so a sum above 255 wraps around and is 255 only if S mod 256 is 255.
C13_WrapsModulo256 ==
    cpc = "convolved" =>
        \A i \in 0..(new_img.shape[1] - 1), j \in 0..(new_img.shape[2] - 1),
           k \in 0..(new_img.shape[3] - 1) :
              LET p == pad_img(OnlyChannel(img, k), kernel)
                  S == TapSum(p, kernel, i, j, 0)
                  v == ResAt(i, j, k)
              IN /\ v \in 0..255
                 /\ S <= 0 => v = 0
                 /\ S > 0 => \E m \in 0..(S \div 256) : S = 256 * m + v

\* the Sharpen kernel over a pixel 255 with neighbours 0: the sum 1275 comes
\* back as 251
C13_Witness ==
    /\ cpc = "convolved"
    /\ kernel = KernelNamed("Sharpen")
    /\ \E i \in 0..(new_img.shape[1] - 1), j \in 0..(new_img.shape[2] - 1),
          k \in 0..(new_img.shape[3] - 1) :
              /\ At3(new_img, i, j, k) = 1275
              /\ ResAt(i, j, k) = 251

\* C14: convolve2D on a 2-D (grayscale) image returns a 2-D result equal to
\* channel 0 of convolve2D applied to the same image as a one-channel 3-D
\* array, and raises exactly when that call raises; on a 3-D image it returns
\* a 3-D result with the input's channel count, one channel included.
C14_GrayIsOneChannel ==
    /\ (cpc \in {"convolved", "raised"} /\ Len(img.shape) = 2) =>
          LET one == OnlyChannel(img, 0)
          IN /\ (cpc = "raised") = convolve2D_raises(one, kernel)
             /\ cpc = "convolved" =>
                   /\ Len(res.shape) = 2
                   /\ Len(convolve2D(one, kernel).shape) = 3
                   /\ res.shape = <<convolve2D(one, kernel).shape[1],
                                    convolve2D(one, kernel).shape[2]>>
                   /\ \A r \in 1..res.shape[1], q \in 1..res.shape[2] :
                         res.data[r][q] = convolve2D(one, kernel).data[r][q][1]
    /\ (cpc = "convolved" /\ Len(img.shape) = 3) =>
          /\ Len(res.shape) = 3
          /\ res.shape[3] = img.shape[3]
          /\ \A r \in 1..res.shape[1], q \in 1..res.shape[2] :
                Len(res.data[r][q]) = img.shape[3]

\* a 2 x 2 grayscale image under the 2 x 2 kernel: a 1 x 1 2-D result holding
\* a value that is not 0
C14_Witness ==
    /\ cpc = "convolved"
    /\ Len(img.shape) = 2
    /\ img.shape = <<2, 2>>
    /\ kernel.shape = <<2, 2>>
    /\ res.shape = <<1, 1>>
    /\ res.data[1][1] # 0

(***************************************************************************)
(* Claims about the dataset part (SpecData).                               *)
(***************************************************************************)
\* get_data_from_dir has returned
Loaded == dpc \in {"loaded", "shuffled", "split", "encoded"} \/ (dpc = "raised" /\ files # <<>>)

\* C4: get_data_from_dir returns one label per loaded image, in the order of
\* the images; every image read from the i-th listed class folder carries
\* label i, and labels_list[i] is that folder's name, so labels_list[label]
\* names the folder of each image, empty class folders included.
C4_LabelsNameFolders ==
    Loaded =>
        /\ Len(y) = Len(X)
        /\ Len(X) = TotalOf(tree, DOMAIN tree)
        /\ Len(labels_list) = Cardinality(DOMAIN tree)
        /\ \A i \in 1..Len(files) : labels_list[i] = files[i]
        /\ \A c \in DOMAIN tree : \A m \in 1..tree[c] :
              Cardinality({p \in 1..Len(X) : X[p] = <<c, m>>}) = 1
        /\ \A p \in 1..Len(X) :
              /\ y[p] \in 0..(Len(labels_list) - 1)
              /\ labels_list[y[p] + 1] = X[p][1]
        /\ \A p, q \in 1..Len(X) : p <= q => y[p] <= y[q]

\* an empty class folder listed first, then a folder with two images
C4_Witness ==
    /\ dpc = "loaded"
    /\ Len(files) = 2
    /\ tree[files[1]] = 0
    /\ tree[files[2]] = 2
    /\ y = <<1, 1>>

\* number of positions at which (a, b) holds the pair pr
PairCount(a, b, pr) == Cardinality({p \in 1..Len(a) : <<a[p], b[p]>> = pr})

\* C5: shuffle(X, y) applies one permutation to both: the returned pairs
\* (X[i], y[i]) are the input pairs rearranged, none lost, duplicated or
\* re-labelled, and the inputs are as get_data_from_dir returned them.
C5_ShuffleKeepsPairs ==
    dpc = "shuffled" =>
        /\ Len(Xs) = Len(X)
        /\ Len(ys) = Len(y)
        /\ \A p \in 1..Len(X) :
              PairCount(Xs, ys, <<X[p], y[p]>>) = PairCount(X, y, <<X[p], y[p]>>)
        /\ X = get_data_from_dir(tree, files).imgs
        /\ y = get_data_from_dir(tree, files).labels

\* three images of two classes, returned in another order with another label order
C5_Witness ==
    /\ dpc = "shuffled"
    /\ Len(X) = 3
    /\ y = <<0, 0, 1>>
    /\ ys = <<1, 0, 0>>
    /\ Xs[2] = X[2]

\* C6: train_test_split(X, y, val_split) with 0 <= val_split <= 1 returns the
\* first floor(n * (1 - val_split)) rows of X and y as the training part and
\* the remaining rows as the test part, in the original order: train followed
\* by test is the input, and the X and y part of each side are equally long.
C6_SplitIsPartition ==
    dpc = "split" =>
        LET n == Len(Xs)
            k == Len(X_train)
        IN /\ k * val_split[2] <= n * (val_split[2] - val_split[1])
           /\ n * (val_split[2] - val_split[1]) < (k + 1) * val_split[2]
           /\ Len(y_train) = k
           /\ Len(X_test) = n - k
           /\ Len(y_test) = n - k
           /\ X_train \o X_test = Xs
           /\ y_train \o y_test = ys

\* five rows split with val_split 0.8: no training row, five test rows
C6_ShortIndex ==
    /\ dpc = "split"
    /\ val_split = <<4, 5>>
    /\ Len(Xs) = 5
    /\ Len(X_train) = 0
    /\ Len(X_test) = 5

\* the largest entry of a non-empty vector
Largest(v) == CHOOSE m \in {v[i] : i \in 1..Len(v)} : \A i \in 1..Len(v) : v[i] <= m

\* C7: one_hot(y) for non-negative integer labels has len(y) rows and
\* max(y) + 1 columns; row i has exactly one 1, at column y[i], and 0
\* elsewhere, so the argmax of each row gives y[i] back.
C7_OneHotRoundTrip ==
    dpc = "encoded" =>
        /\ Len(hot) = Len(hot_in)
        /\ \A i \in 1..Len(hot_in) :
              /\ Len(hot[i]) = Largest(hot_in) + 1
              /\ \A c \in 0..Largest(hot_in) :
                    hot[i][c + 1] = IF c = hot_in[i] THEN 1 ELSE 0
              /\ np_argmax(hot[i]) = hot_in[i]

\* a label vector holding classes 0 and 1, encoded in two columns
C7_Witness ==
    /\ dpc = "encoded"
    /\ Len(hot_in) = 3
    /\ hot_in[1] # hot_in[2]
    /\ hot = <<IF hot_in[1] = 0 THEN <<1, 0>> ELSE <<0, 1>>,
               IF hot_in[2] = 0 THEN <<1, 0>> ELSE <<0, 1>>,
               IF hot_in[3] = 0 THEN <<1, 0>> ELSE <<0, 1>> >>

\* C15: in the training-data cell, for every shuffle outcome, one_hot(y_train)
\* and one_hot(y_test) have the same number of columns, the number of classes
\* get_data_from_dir found: each encoding has one column per class folder.
C15_OneHotWidthIsClassCount ==
    (dpc = "encoded" /\ hot_in \in {y_train, y_test}) =>
        \A i \in 1..Len(hot) : Len(hot[i]) = Len(labels_list)

\* two class folders, three images of the first and one of the second, the
\* shuffle leaving the second class's image last: y_train holds class 0 only
\* and is encoded in one column
C15_NarrowTrainEncoding ==
    /\ dpc = "encoded"
    /\ Len(labels_list) = 2
    /\ ys = <<0, 0, 0, 1>>
    /\ y_train = <<0, 0, 0>>
    /\ y_test = <<1>>
    /\ hot_in = y_train
    /\ hot = << <<1>>, <<1>>, <<1>> >>

(***************************************************************************)
(* Claims about the two loads (SpecLoads).                                 *)
(***************************************************************************)
\* C16: a class keeps one label index across loads: with the same class
\* folders in Training and Val, every class name gets the same integer label
\* in both loads whatever the listing orders, and the labels_list bound last
\* (from Val) names, at each training label, the class the label was given to.
C16_ClassKeepsLabel ==
    dpc = "validation loaded" =>
        /\ \A p \in 1..Len(X), q \in 1..Len(X_val) :
              X[p][1] = X_val[q][1] => y[p] = y_val[q]
        /\ \A p \in 1..Len(X) : labels_list[y[p] + 1] = X[p][1]

\* Training listed as Apple, Banana and Val as Banana, Apple: the Apple
\* images are labelled 0 in training and 1 in validation, and labels_list[0]
\* is Banana
C16_LabelsSwapped ==
    /\ dpc = "validation loaded"
    /\ files = <<"Apple", "Banana">>
    /\ val_files = <<"Banana", "Apple">>
    /\ labels_list = <<"Banana", "Apple">>
    /\ \E p \in 1..Len(X), q \in 1..Len(X_val) :
          X[p][1] = "Apple" /\ X_val[q][1] = "Apple" /\ y[p] = 0 /\ y_val[q] = 1

(***************************************************************************)
(* Claims about the notebook runs (SpecRun).                               *)
(***************************************************************************)
\* the data the evaluate / predict calls of a notebook are given
EvalData(n) == IF n = "CNN" THEN {"X_val", "y_val_hot"} ELSE {"X_test", "y_test"}

\* C8: in every cell-order run of either notebook's classification part the
\* train_model knob selects exactly one path: when True the model is built,
\* fitted and written to the checkpoint and the checkpoint is never read; when
\* False nothing is built, fitted or written and the model is read from the
\* checkpoint; final_model and the evaluation data are bound before the first
\* evaluate/predict call, and no cell uses a name its path left undefined.
C8_KnobSelectsOnePath ==
    /\ status # "NameError"
    /\ train_model => /\ ckpt_reads = 0
                      /\ final_model # "load_model(checkpoint)"
    /\ ~train_model => /\ ~built
                       /\ ~fitted
                       /\ ckpt_writes = 0
                       /\ final_model \in {"unbound", "load_model(checkpoint)"}
    /\ (status = "done" /\ train_model) =>
          /\ built
          /\ fitted
          /\ ckpt_writes = 1
          /\ ckpt = "model"
    /\ (status = "done" /\ ~train_model) =>
          /\ ckpt_reads = 1
          /\ final_model = "load_model(checkpoint)"
    /\ evals > 0 =>
          /\ final_model # "unbound"
          /\ "final_model" \in ns
          /\ EvalData(nb) \subseteq ns

\* the CNN notebook run to its end with train_model False: the model came from the checkpoint
C8_Witness ==
    /\ nb = "CNN"
    /\ status = "done"
    /\ ~train_model
    /\ ckpt_reads = 1
    /\ evals = 2
    /\ ~built

\* the helper components: dataset loader, shuffler, splitter, one-hot encoder,
\* and the convolution/padding pair
Helpers == {"get_data_from_dir", "shuffle", "train_test_split", "one_hot", "convolve2D", "pad_img"}

\* number of calls of helper f in a log
CallCount(l, f) == Cardinality({p \in 1..Len(l) : l[p] = <<"call", f>>})

IsHelperEvent(e, kind) == e[1] = kind /\ e[2] \in Helpers

\* number of helper calls active after the first n events of a log
Depth(l, n) ==
    Cardinality({p \in 1..n : IsHelperEvent(l[p], "call")})
    - Cardinality({p \in 1..n : IsHelperEvent(l[p], "ret")})

\* the innermost helper call active after the first n events (Depth(l, n) > 0)
Innermost(l, n) ==
    LET p == CHOOSE p \in 1..n :
                 /\ IsHelperEvent(l[p], "call")
                 /\ Depth(l, p) = Depth(l, n)
                 /\ \A q \in (p + 1)..n :
                       ~(IsHelperEvent(l[q], "call") /\ Depth(l, q) = Depth(l, n))
    IN l[p][2]

\* no helper call starts before the previous one has returned; pad_img runs
\* only inside the convolve2D call that makes it; every return is that of the
\* innermost active call
Sequential(l) ==
    /\ Depth(l, Len(l)) = 0
    /\ \A n \in 1..Len(l) :
          /\ IsHelperEvent(l[n], "call") =>
                IF l[n][2] = "pad_img"
                THEN Depth(l, n - 1) = 1 /\ Innermost(l, n - 1) = "convolve2D"
                ELSE Depth(l, n - 1) = 0
          /\ IsHelperEvent(l[n], "ret") =>
                Depth(l, n - 1) >= 1 /\ Innermost(l, n - 1) = l[n][2]

\* C9 as stated: in a cell-order run each helper component is called once,
\* sequentially, no call starting before the previous one has returned.
C9_EachHelperCalledOnce ==
    /\ Sequential(log)
    /\ (nb = "CNN" /\ status = "done") => \A f \in Helpers : CallCount(log, f) = 1

\* C9 (amended): the helper calls of a cell-order run are sequential, but not
\* one per helper: convolve2D and pad_img are called once for each of the 7
\* kernels; with train_model True get_data_from_dir and shuffle are called
\* twice, one_hot three times and train_test_split once; with train_model
\* False get_data_from_dir, shuffle and one_hot are called once and
\* train_test_split never.
C9_HelperCallsSequential ==
    /\ Sequential(log)
    /\ (nb = "CNN" /\ status = "done") =>
          /\ CallCount(log, "convolve2D") = 7
          /\ CallCount(log, "pad_img") = 7
          /\ CallCount(log, "get_data_from_dir") = IF train_model THEN 2 ELSE 1
          /\ CallCount(log, "shuffle") = IF train_model THEN 2 ELSE 1
          /\ CallCount(log, "one_hot") = IF train_model THEN 3 ELSE 1
          /\ CallCount(log, "train_test_split") = IF train_model THEN 1 ELSE 0

\* the CNN notebook run to its end with train_model True
C9_Witness ==
    /\ nb = "CNN"
    /\ status = "done"
    /\ train_model
    /\ CallCount(log, "convolve2D") = 7
    /\ CallCount(log, "get_data_from_dir") = 2
    /\ CallCount(log, "train_test_split") = 1

(***************************************************************************)
(* Claims about the time-series part (SpecSeries).                         *)
(***************************************************************************)
\* C10: the time-series split gives the training set the first n_train_hours
\* rows of the reframed data and the test set all remaining rows; the two
\* sets are disjoint and together contain every row.
C10_TrainIsFirstRows ==
    spc = "split" =>
        LET values == reframed.values
            k == IF n_train_hours <= Len(values) THEN n_train_hours ELSE Len(values)
        IN /\ train = [r \in 1..k |-> values[r]]
           /\ test = [r \in 1..(Len(values) - k) |-> values[k + r]]
           /\ train \o test = values

\* four reframed rows split at n_train_hours = 1: train holds the last three
\* rows and test the first
C10_TrainIsLastRows ==
    /\ spc = "split"
    /\ n_train_hours = 1
    /\ Len(reframed.values) = 4
    /\ Len(train) = 3
    /\ Len(test) = 1
    /\ test \o train = reframed.values

\* organize_series has returned
Reframed == spc \in {"reframed", "split"}

\* the time offset of the c-th block of columns: -n_in, ..., -1, 0, ..., n_out - 1
OffsetOf(c) == c - n_in - 1

\* what organize_series returned has (n_in + n_out) * v columns named
\* var<j>(t-<i>), var<j>(t), var<j>(t+<i>) block by block; the row for time t
\* holds the variables at t - n_in, ..., t - 1, t, ..., t + n_out - 1 in that
\* order; the rows kept are those whose window lies inside the series, in
\* time order
WindowRows ==
    LET n == Len(series.data)
        v == series.n_vars
        blocks == n_in + n_out
    IN /\ Len(reframed.columns) = blocks * v
       /\ \A c \in 1..blocks, j \in 1..v :
             reframed.columns[(c - 1) * v + j] = <<j, OffsetOf(c)>>
       /\ Len(reframed.index) = Len(reframed.values)
       /\ {reframed.index[r] : r \in 1..Len(reframed.index)}
             = {t \in 0..(n - 1) : \A c \in 1..blocks : t + OffsetOf(c) \in 0..(n - 1)}
       /\ \A r \in 1..Len(reframed.index) :
             /\ r > 1 => reframed.index[r - 1] < reframed.index[r]
             /\ Len(reframed.values[r]) = blocks * v
             /\ \A c \in 1..blocks, j \in 1..v :
                   reframed.values[r][(c - 1) * v + j] = <<reframed.index[r] + OffsetOf(c), j>>

\* C17 as stated: organize_series(data, n_in, n_out) on an n-row series of v
\* variables returns n - n_in - (n_out - 1) rows and (n_in + n_out) * v
\* columns, the row for time t holding the variables at t - n_in, ..., t - 1,
\* t, ..., t + n_out - 1 under the names var<j>(t-<i>), var<j>(t), var<j>(t+<i>).
C17_RowCountAsStated ==
    Reframed =>
        /\ Len(reframed.values) = Len(series.data) - n_in - (n_out - 1)
        /\ WindowRows

\* C17 (amended): organize_series returns max(0, n - n_in - max(n_out - 1, 0))
\* rows: n - n_in - (n_out - 1) when n_out >= 1 and the series is at least
\* n_in + n_out - 1 rows long, n - n_in rows when n_out = 0, and no row when
\* the series is shorter than the window; columns, names and row contents
\* are as stated.
C17_RowCountClipped ==
    Reframed =>
        /\ Len(reframed.values) = Max(0, Len(series.data) - n_in - Max(n_out - 1, 0))
        /\ WindowRows

\* five rows of two variables under n_in = 2, n_out = 2: two rows of eight
\* columns, the first for time 2
C17_Witness ==
    /\ spc = "reframed"
    /\ Len(series.data) = 5
    /\ series.n_vars = 2
    /\ n_in = 2
    /\ n_out = 2
    /\ reframed.index = <<2, 3>>
    /\ reframed.values[1] = << <<0, 1>>, <<0, 2>>, <<1, 1>>, <<1, 2>>,
                               <<2, 1>>, <<2, 2>>, <<3, 1>>, <<3, 2>> >>
    /\ reframed.columns[1] = <<1, -2>>
    /\ reframed.columns[8] = <<2, 1>>

\* the inputs and the target of every row of X and y: the target is a value
\* observed at some time t, every input of the row is a value of time t - 1,
\* and the target is not among the row's inputs
LaggedInputs(Xa, ya) ==
    /\ Len(Xa) = Len(ya)
    /\ \A r \in 1..Len(ya) :
          LET t == ya[r][1]
          IN /\ Len(Xa[r]) = 1
             /\ \A c \in 1..Len(Xa[r][1]) :
                   /\ Xa[r][1][c][1] = t - 1
                   /\ Xa[r][1][c] # ya[r]

\* C18: in the time-series forecasting cells (organize_series(scaled, 1, 1)
\* and the input/output split) every input row of X_train and X_test holds
\* only values lagged to time t - 1, and the target y is a variable observed
\* at time t that is not among that row's inputs.
C18_InputsAreLagged ==
    (spc = "split" /\ n_in = 1 /\ n_out = 1) =>
        /\ LaggedInputs(X_train_ts, y_train_ts)
        /\ LaggedInputs(X_test_ts, y_test_ts)

\* two variables: the row for time 1 has the inputs var1(t-1), var2(t-1) and
\* var1(t), and the target var2(t)
C18_InputAtTargetTime ==
    /\ spc = "split"
    /\ n_in = 1
    /\ n_out = 1
    /\ series.n_vars = 2
    /\ Len(X_test_ts) >= 1
    /\ X_test_ts[1] = << << <<0, 1>>, <<0, 2>>, <<1, 1>> >> >>
    /\ y_test_ts[1] = <<1, 2>>

(***************************************************************************)
(* Claims about vectorize_sequences (SpecVec).                             *)
(***************************************************************************)
\* C19: vectorize_sequences(sequences, dimension) returns a len(sequences) x
\* dimension matrix whose entry (i, j) is 1 exactly when word index j occurs
\* at least once in sequences[i] and 0 otherwise: repeated indices do not
\* accumulate.
C19_MultiHotRows ==
    vpc = "vectorized" =>
        /\ Len(results) = Len(sequences)
        /\ \A i \in 1..Len(sequences) :
              /\ Len(results[i]) = dimension
              /\ \A j \in 0..(dimension - 1) :
                    results[i][j + 1] =
                        IF \E p \in 1..Len(sequences[i]) : sequences[i][p] = j THEN 1 ELSE 0

\* a sequence holding word 1 twice and an empty sequence: rows 0 1 and 0 0
C19_Witness ==
    /\ vpc = "vectorized"
    /\ dimension = 2
    /\ sequences = << <<1, 1>>, <<>> >>
    /\ results = << <<0, 1>>, <<0, 0>> >>

(***************************************************************************)
(* Claims about the n_gpus knob (SpecRun).                                 *)
(***************************************************************************)
\* C20: the n_gpus knob is on/off only: once built, final_model is the plain
\* model when n_gpus <= 1 and, for every n_gpus > 1, the multi-GPU wrapper
\* requested with exactly 8 replicas; in both cases the checkpoint written is
\* the plain model, not the wrapper.
C20_GpuKnobIsOnOff ==
    /\ built =>
          /\ n_gpus <= 1 => final_model = "model"
          /\ n_gpus > 1 => final_model = "multi_gpu_model(model, gpus=8)"
    /\ ckpt_writes > 0 =>
          /\ built
          /\ ckpt = "model"
          /\ ckpt # final_model \/ n_gpus <= 1

\* a training run to its end with n_gpus = 2: the wrapper of 8 replicas was
\* fitted and the plain model saved
C20_Witness ==
    /\ status = "done"
    /\ train_model
    /\ n_gpus = 2
    /\ fitted
    /\ final_model = "multi_gpu_model(model, gpus=8)"
    /\ ckpt_writes = 1
    /\ ckpt = "model"

====
